---- MODULE Spec2Model ----
(***************************************************************************)
(* Model of rtr-validator (src/main.rs): a one-shot command line tool that *)
(* connects to an RTR server, collects the announced route origins (ROAs)  *)
(* through the RoaCollector update sink, and then checks a query prefix    *)
(* (and optionally an origin AS) against the collected ROAs.               *)
(*                                                                         *)
(* Addresses are abstracted to one bit for both families, so a prefix is   *)
(* 0/0, 0/1 or 1/1 and a query may also be written 1/0 (host bit set); an  *)
(* Option<T> value is a sequence of length 0 (None) or 1 (Some).           *)
(***************************************************************************)
EXTENDS Integers, Sequences, FiniteSets, TLC

\* ------------------------------------------------------------------ bounds
MaxRoas == 2
MaxBatch == 2
MaxUpdates == 3

\* ------------------------------------------------------------- data types
None == <<>>
Some(x) == <<x>>

Families == {"V4", "V6"}
AddrValues == {0, 1}
PrefixLens == {0, 1}
\* The origin AS numbers of the ROAs, and the AS numbers given as --asn: one
\* more, so that a query can name an AS no ROA has.
Asns == {1, 2}
QueryAsns == Asns \cup {3}

\* ipnet network(): the address with the host bits cleared.
Network(bits, len) == IF len = 0 THEN 0 ELSE bits

\* std::net::IpAddr: a family tag and the address value.
IpAddrs == [fam : Families, bits : AddrValues]

\* ipnet::IpNet as parsed from the --prefix argument: the address is kept
\* as written, host bits included.
IpNets == [fam : Families, addr : AddrValues, len : PrefixLens]
NoPrefix == [fam |-> "none", addr |-> 0, len |-> 0]

\* The text given as --prefix: a CIDR text (its length may be out of range)
\* or text that is no CIDR prefix at all.
Garbage == [fam |-> "garbage", addr |-> 0, len |-> 0]
AllPrefixArgs == [fam : Families, addr : AddrValues, len : PrefixLens \cup {2}]
                   \cup {Garbage}

\* The --prefix texts tried in a whole run: no prefix at all, a length out
\* of range, the V4 prefixes at address 0, 0/0 written with the host bit
\* set, and 0/0 of the other family.
PrefixArgs ==
    { t \in AllPrefixArgs :
        \/ t = Garbage
        \/ t.fam = "V4" /\ t.addr = 0
        \/ t.fam = "V4" /\ t.addr = 1 /\ t.len = 0
        \/ t.fam = "V6" /\ t.addr = 0 /\ t.len = 0 }

\* IpNet::from_str: Some(net) or None on a parse error.
IpNet_from_str(text) ==
    IF text.fam \in Families /\ text.len \in PrefixLens
    THEN Some([fam |-> text.fam, addr |-> text.addr, len |-> text.len])
    ELSE None

\* --asn: Option<u32>
AllAsnArgs == {None} \cup {Some(a) : a \in QueryAsns}

\* The --asn values tried in a whole run: the AS of the server's origins,
\* one no ROA has, or none.
AsnArgs == {None, Some(1), Some(3)}

\* rpki RouteOrigin { prefix: MaxLenPrefix { addr, len, max_len }, asn }.
\* The RTR library only builds prefixes without host bits and with
\* len <= max_len <= address width.
MaxLenPrefixes ==
    { p \in [addr : IpAddrs, len : PrefixLens,
             max_len : {None} \cup {Some(m) : m \in PrefixLens}] :
        /\ Network(p.addr.bits, p.len) = p.addr.bits
        /\ (p.max_len # None => p.max_len[1] >= p.len) }
RouteOrigin == [prefix : MaxLenPrefixes, asn : Asns]

\* rpki Payload: a route origin or another payload kind (router key, ...).
RouterKey == [kind |-> "RouterKey", origin |-> None]
Origin(o) == [kind |-> "Origin", origin |-> Some(o)]
Action == {"Announce", "Withdraw"}

\* The origins the modelled server sends during a session.
ServerOrigins ==
    { o \in RouteOrigin : /\ o.prefix.addr = [fam |-> "V4", bits |-> 0]
                          /\ o.prefix.max_len = None
                          /\ o.asn = 1 }
ServerPayloads == {Origin(o) : o \in ServerOrigins} \cup {RouterKey}
UpdateItems == [action : Action, payload : ServerPayloads]

RECURSIVE SeqsUpTo(_, _)
SeqsUpTo(S, n) ==
    IF n = 0 THEN {<<>>}
    ELSE LET shorter == SeqsUpTo(S, n - 1)
         IN shorter \cup {Append(s, x) : s \in {t \in shorter : Len(t) = n - 1}, x \in S}

\* Timing records: refresh interval zero or positive.
Timings == [refresh : {0, 1}]

\* std::io::Error as main looks at it: its kind, and whether its text
\* contains "corrupt".
IoErrors == [kind : {"Other", "ConnectionReset"}, corrupt : BOOLEAN]

\* Result of timeout(60s, client.run()).
Pending == [tag |-> "Pending", kind |-> "", corrupt |-> FALSE]
OkOk    == [tag |-> "OkOk", kind |-> "", corrupt |-> FALSE]
OkErr(e) == [tag |-> "OkErr", kind |-> e.kind, corrupt |-> e.corrupt]
Elapsed == [tag |-> "Elapsed", kind |-> "", corrupt |-> FALSE]

\* The client turns PayloadError::Corrupt returned by apply into the
\* io::Error that run() returns (comment at main.rs:127).
CorruptToIoError == [kind |-> "Other", corrupt |-> TRUE]

NoUpdate == <<"NoUpdate">>

VARIABLES
    pc,                \* position in main
    prefix,            \* parsed --prefix (IpNet)
    asn,               \* --asn
    roas,              \* RoaCollector.roas
    update_count,      \* RoaCollector.update_count
    last_update_size,  \* RoaCollector.last_update_size
    update,            \* batch context handed out by start, NoUpdate if none
    result,            \* result of timeout(client.run())
    matching_roas,     \* main's matching_roas: <<asn, max_len>> pairs
    verdict,           \* what main printed as verdict
    reported,          \* the matching ROAs main printed
    authorized,        \* the "Authorized ASNs" list main printed
    exit,              \* "none" while running, then "ok" or "err"
    error,             \* context of the error main returned
    stopSignal,        \* history: apply returned PayloadError::Corrupt
    lastBatch,         \* history: the batch of the apply call just made,
                       \* until the client starts the next one or returns
    announced,         \* history: origins announced by the server so far
    lastTiming,        \* history: the timing record of the apply call just made
    lastReset          \* history: the reset flag of the start call just made

vars == <<pc, prefix, asn, roas, update_count, last_update_size, update,
          result, matching_roas, verdict, reported, authorized, exit, error,
          stopSignal, lastBatch, announced, lastTiming, lastReset>>

collector == <<roas, update_count, last_update_size>>
output == <<verdict, reported, authorized>>
history == <<stopSignal, lastBatch, announced, lastTiming, lastReset>>

\* --------------------------------------------------------- RoaCollector
\* RoaCollector::new
RoaCollector_new ==
    /\ roas = <<>>
    /\ update_count = 0
    /\ last_update_size = 0

\* RoaCollector::start: the batch context it returns.
start(reset) == <<>>

\* Variant of the loop that does not look at the action.
RECURSIVE PushOriginsAnyAction(_, _)
PushOriginsAnyAction(rs, upd) ==
    IF upd = <<>> THEN rs
    ELSE LET item == Head(upd)
             next == IF item.payload.kind = "Origin"
                     THEN Append(rs, item.payload.origin[1])
                     ELSE rs
         IN PushOriginsAnyAction(next, Tail(upd))

\* Variant of the loop that acts on Withdraw by removing the origin.
RECURSIVE PushOriginsWithdraw(_, _)
PushOriginsWithdraw(rs, upd) ==
    IF upd = <<>> THEN rs
    ELSE LET item == Head(upd)
             next == IF item.payload.kind # "Origin" THEN rs
                     ELSE IF item.action = "Announce"
                          THEN Append(rs, item.payload.origin[1])
                          ELSE SelectSeq(rs, LAMBDA r : r # item.payload.origin[1])
         IN PushOriginsWithdraw(next, Tail(upd))

\* The loop of apply: push the origin of every Announce/Origin pair.
RECURSIVE PushOrigins(_, _)
PushOrigins(rs, upd) ==
    IF upd = <<>> THEN rs
    ELSE LET item == Head(upd)
             next == IF item.action = "Announce" /\ item.payload.kind = "Origin"
                     THEN Append(rs, item.payload.origin[1])
                     ELSE rs
         IN PushOrigins(next, Tail(upd))

\* Variant that stops on every empty update.
ApplyStopsAnyEmpty(rs, upd, timing) == upd = <<>>

\* Variant that also takes an End-of-Data timing record (refresh interval
\* above zero) after data as the end of the synchronisation.
ApplyStopsOnTiming(rs, upd, timing) ==
    (upd = <<>> \/ timing.refresh > 0) /\ Len(rs) > 0

\* apply returns Err(PayloadError::Corrupt) on an empty update after data;
\* it does not look at its _timing argument.
ApplyStops(rs, upd, timing) == upd = <<>> /\ Len(rs) > 0

\* RoaCollector.roas after apply.
ApplyRoas(rs, upd, timing) ==
    IF ApplyStops(rs, upd, timing) THEN rs ELSE PushOrigins(rs, upd)

\* History: the route origins of the Announce pairs of a batch, in order.
AnnouncedOrigins(upd) ==
    LET pairs == SelectSeq(upd, LAMBDA it : it.action = "Announce"
                                             /\ it.payload.kind = "Origin")
    IN [i \in 1 .. Len(pairs) |-> pairs[i].payload.origin[1]]

\* ------------------------------------------------------------ Match Engine
\* Variant that compares address value and length without the family.
MatchesAnyFamily(q, roa) ==
    roa.prefix.addr.bits = q.addr /\ roa.prefix.len = q.len

\* The match expression of main's loop over collector.roas.
Matches(q, roa) ==
    LET roa_addr == roa.prefix.addr
        roa_prefix_len == roa.prefix.len
    IN CASE q.fam = "V4" /\ roa_addr.fam = "V4" ->
                roa_addr.bits = q.addr /\ roa_prefix_len = q.len
         [] q.fam = "V6" /\ roa_addr.fam = "V6" ->
                roa_addr.bits = q.addr /\ roa_prefix_len = q.len
         [] OTHER -> FALSE

\* Variant that defaults a missing max-length to the address width.
MaxLenOrAddrWidth(roa) ==
    IF roa.prefix.max_len = None THEN 1 ELSE roa.prefix.max_len[1]

\* max_len().unwrap_or(roa_prefix_len)
MaxLenOrDefault(roa) ==
    IF roa.prefix.max_len = None THEN roa.prefix.len ELSE roa.prefix.max_len[1]

\* Variant of the loop that keeps one entry per (origin-AS, max-length) pair.
RECURSIVE MatchingRoasDedup(_, _)
MatchingRoasDedup(rs, q) ==
    IF rs = <<>> THEN <<>>
    ELSE LET roa == Head(rs)
             rest == MatchingRoasDedup(Tail(rs), q)
             pair == <<roa.asn, MaxLenOrDefault(roa)>>
         IN IF Matches(q, roa) /\ \A i \in 1 .. Len(rest) : rest[i] # pair
            THEN <<pair>> \o rest
            ELSE rest

\* main's loop building matching_roas.
RECURSIVE MatchingRoas(_, _)
MatchingRoas(rs, q) ==
    IF rs = <<>> THEN <<>>
    ELSE LET roa == Head(rs)
             rest == MatchingRoas(Tail(rs), q)
         IN IF Matches(q, roa)
            THEN <<(<<roa.asn, MaxLenOrDefault(roa)>>)>> \o rest
            ELSE rest

\* Variant with all() in place of any().
IsValidAll(m, check_asn) == \A i \in 1 .. Len(m) : m[i][1] = check_asn

\* matching_roas.iter().any(|(asn, _)| *asn == check_asn)
IsValid(m, check_asn) == \E i \in 1 .. Len(m) : m[i][1] = check_asn

\* matching_roas.iter().map(|(asn, _)| format!("AS{}", asn))
AsnList(m) == [i \in 1 .. Len(m) |-> m[i][1]]

\* What main prints for matching_roas and --asn.
VerdictOf(m, a) ==
    IF m = <<>> THEN "NOT FOUND"
    ELSE IF a = None THEN "FOUND"
    ELSE IF IsValid(m, a[1]) THEN "VALID" ELSE "INVALID"

\* ------------------------------------------------------------------- main
Init ==
    /\ pc = "parse"
    /\ prefix = NoPrefix
    /\ asn = None
    /\ RoaCollector_new
    /\ update = NoUpdate
    /\ result = Pending
    /\ matching_roas = <<>>
    /\ verdict = "none"
    /\ reported = <<>>
    /\ authorized = <<>>
    /\ exit = "none"
    /\ error = "none"
    /\ stopSignal = FALSE
    /\ lastBatch = <<>>
    /\ lastTiming = None
    /\ lastReset = None
    /\ announced = <<>>

\* return Err(..).context(ctx)
Fail(ctx) ==
    /\ pc' = "done"
    /\ exit' = "err"
    /\ error' = ctx

\* Args::parse and IpNet::from_str(&args.prefix).context(..)?
ParsePrefix ==
    /\ pc = "parse"
    /\ \E text \in PrefixArgs, a \in AsnArgs :
         LET parsed == IpNet_from_str(text)
         IN /\ asn' = a
            /\ IF parsed = None
               THEN Fail("Failed to parse prefix") /\ UNCHANGED prefix
               ELSE /\ prefix' = parsed[1]
                    /\ pc' = "resolve"
                    /\ UNCHANGED <<exit, error>>
    /\ UNCHANGED <<collector, update, result, matching_roas, output, history>>

\* args.server parsed as SocketAddr, else resolved through DNS.
ResolveServer ==
    /\ pc = "resolve"
    /\ \E r \in {"literal", "resolved", "resolve_error", "no_addresses"} :
         CASE r = "resolve_error" -> Fail("Failed to resolve server address")
           [] r = "no_addresses" -> Fail("No addresses found for hostname")
           [] OTHER -> pc' = "connect" /\ UNCHANGED <<exit, error>>
    /\ UNCHANGED <<prefix, asn, collector, update, result, matching_roas,
                   output, history>>

\* timeout(10s, TcpStream::connect(..)): connected, then RoaCollector::new
\* and Client::new.
Connect ==
    /\ pc = "connect"
    /\ pc' = "session"
    /\ UNCHANGED <<prefix, asn, collector, update, result, matching_roas,
                   output, exit, error, history>>

\* TcpStream::connect returned an error.
ConnectFails ==
    /\ pc = "connect"
    /\ Fail("Failed to connect to RTR server")
    /\ UNCHANGED <<prefix, asn, collector, update, result, matching_roas,
                   output, history>>

\* Variant: the connect deadline is reported but main goes on.
ConnectDeadlineIgnored ==
    /\ pc = "connect"
    /\ pc' = "session"
    /\ error' = "Connection timeout"
    /\ UNCHANGED <<prefix, asn, collector, update, result, matching_roas,
                   output, exit, history>>

\* The 10 second connect deadline elapsed.
ConnectDeadline ==
    /\ pc = "connect"
    /\ Fail("Connection timeout")
    /\ UNCHANGED <<prefix, asn, collector, update, result, matching_roas,
                   output, history>>

\* Variant: start empties the collector on a cache reset.
StartClearsOnReset ==
    /\ pc = "session"
    /\ update = NoUpdate
    /\ \E reset \in BOOLEAN :
         /\ update' = start(reset)
         /\ lastReset' = Some(reset)
         /\ roas' = (IF reset THEN <<>> ELSE roas)
    /\ lastBatch' = <<>>
    /\ lastTiming' = None
    /\ UNCHANGED <<pc, prefix, asn, update_count, last_update_size, result,
                   matching_roas, output, exit, error, stopSignal, announced>>

\* The client calls target.start(reset) at the start of a reset or serial
\* query.
Start ==
    /\ pc = "session"
    /\ update = NoUpdate
    /\ \E reset \in BOOLEAN :
         /\ update' = start(reset)
         /\ lastReset' = Some(reset)
    /\ lastBatch' = <<>>
    /\ lastTiming' = None
    /\ UNCHANGED <<pc, prefix, asn, collector, result, matching_roas, output,
                   exit, error, stopSignal, announced>>

\* The client filled the batch context with the pairs the server sent and
\* calls target.apply(update, timing) at End-of-Data.
Apply ==
    /\ pc = "session"
    /\ update # NoUpdate
    /\ update_count < MaxUpdates
    /\ \E items \in SeqsUpTo(UpdateItems, MaxBatch), timing \in Timings :
         LET batch == update \o items
         IN /\ Len(PushOrigins(roas, batch)) <= MaxRoas
            /\ update_count' = update_count + 1
            /\ last_update_size' = Len(batch)
            /\ roas' = ApplyRoas(roas, batch, timing)
            /\ lastBatch' = batch
            /\ lastTiming' = Some(timing)
            /\ announced' = announced \o AnnouncedOrigins(batch)
            /\ IF ApplyStops(roas, batch, timing)
               THEN /\ result' = OkErr(CorruptToIoError)
                    /\ stopSignal' = TRUE
                    /\ pc' = "match"
               ELSE UNCHANGED <<result, stopSignal, pc>>
    /\ update' = NoUpdate
    /\ lastReset' = None
    /\ UNCHANGED <<prefix, asn, matching_roas, output, exit, error>>

\* client.run() returned Ok(()): the server closed the connection.
RunReturnsOk ==
    /\ pc = "session"
    /\ result' = OkOk
    /\ pc' = "match"
    /\ lastBatch' = <<>>
    /\ lastTiming' = None
    /\ lastReset' = None
    /\ UNCHANGED <<prefix, asn, collector, update, matching_roas, output,
                   exit, error, stopSignal, announced>>

\* client.run() returned an I/O or protocol error of its own.
RunReturnsErr ==
    /\ pc = "session"
    /\ \E e \in IoErrors : result' = OkErr(e)
    /\ pc' = "match"
    /\ lastBatch' = <<>>
    /\ lastTiming' = None
    /\ lastReset' = None
    /\ UNCHANGED <<prefix, asn, collector, update, matching_roas, output,
                   exit, error, stopSignal, announced>>

\* Variant: client.run() awaited without a deadline.
SessionDeadlineNever ==
    /\ pc = "session"
    /\ FALSE
    /\ UNCHANGED vars

\* The 60 second session deadline elapsed before client.run() returned.
SessionDeadline ==
    /\ pc = "session"
    /\ result' = Elapsed
    /\ pc' = "match"
    /\ lastBatch' = <<>>
    /\ lastTiming' = None
    /\ lastReset' = None
    /\ UNCHANGED <<prefix, asn, collector, update, matching_roas, output,
                   exit, error, stopSignal, announced>>

\* Variant that expects the stop signal as an InvalidData error.
IsCompletionSignalInvalidData(e) == e.kind = "InvalidData"

\* The test of the Ok(Err(e)) arm: is e taken as the completion signal?
IsCompletionSignal(e) == e.kind = "Other" \/ e.corrupt

\* match result { .. }: does main go on to the evaluation?
SessionUsable(r) ==
    CASE r.tag = "OkOk" -> TRUE
      [] r.tag = "OkErr" -> IsCompletionSignal(r)
      [] OTHER -> FALSE

\* The context of the error main returns when it does not go on.
SessionError(r) ==
    IF r.tag = "OkErr" THEN "Failed to fetch ROAs from RTR server"
    ELSE "RTR session timeout"

MatchResult ==
    /\ pc = "match"
    /\ IF SessionUsable(result)
       THEN pc' = "evaluate" /\ UNCHANGED <<exit, error>>
       ELSE Fail(SessionError(result))
    /\ UNCHANGED <<prefix, asn, collector, update, result, matching_roas,
                   output, history>>

\* Variant: the collector is read while the session may still be running.
EvaluateEarly ==
    /\ pc \in {"session", "evaluate"}
    /\ matching_roas' = MatchingRoas(roas, prefix)
    /\ pc' = "verdict"
    /\ UNCHANGED <<prefix, asn, collector, update, result, output, exit,
                   error, history>>

\* client.into_target() and the loop over collector.roas.
Evaluate ==
    /\ pc = "evaluate"
    /\ matching_roas' = MatchingRoas(roas, prefix)
    /\ pc' = "verdict"
    /\ UNCHANGED <<prefix, asn, collector, update, result, output, exit,
                   error, history>>

\* The verdict printed from matching_roas, and Ok(()).
Verdict ==
    /\ pc = "verdict"
    /\ verdict' = VerdictOf(matching_roas, asn)
    /\ reported' = matching_roas
    /\ authorized' = (IF verdict' = "INVALID" THEN AsnList(matching_roas)
                                               ELSE <<>>)
    /\ pc' = "done"
    /\ exit' = "ok"
    /\ UNCHANGED <<prefix, asn, collector, update, result, matching_roas,
                   error, history>>

Next ==
    \/ ParsePrefix
    \/ ResolveServer
    \/ Connect
    \/ ConnectFails
    \/ ConnectDeadline
    \/ Start
    \/ Apply
    \/ RunReturnsOk
    \/ RunReturnsErr
    \/ SessionDeadline
    \/ MatchResult
    \/ Evaluate
    \/ Verdict

Spec == Init /\ [][Next]_vars

\* The deadlines are wall-clock timers and main's own steps always run; the
\* server is under no obligation to answer.
LiveSpec ==
    /\ Spec
    /\ WF_vars(ParsePrefix)
    /\ WF_vars(ResolveServer)
    /\ WF_vars(ConnectDeadline)
    /\ WF_vars(SessionDeadline)
    /\ WF_vars(MatchResult)
    /\ WF_vars(Evaluate)
    /\ WF_vars(Verdict)

\* The Match Engine on its own: main at client.into_target() after a session
\* in which the server announced any well-formed origins in one batch and
\* then closed the connection.
MatchInit ==
    /\ pc = "evaluate"
    /\ prefix \in IpNets
    /\ asn \in AllAsnArgs
    /\ roas \in SeqsUpTo(RouteOrigin, MaxRoas)
    /\ update_count = (IF roas = <<>> THEN 0 ELSE 1)
    /\ last_update_size = Len(roas)
    /\ update = NoUpdate
    /\ result = OkOk
    /\ matching_roas = <<>>
    /\ verdict = "none"
    /\ reported = <<>>
    /\ authorized = <<>>
    /\ exit = "none"
    /\ error = "none"
    /\ stopSignal = FALSE
    /\ lastBatch = <<>>
    /\ lastTiming = None
    /\ lastReset = None
    /\ announced = roas

MatchNext ==
    \/ Evaluate
    \/ Verdict

MatchSpec == MatchInit /\ [][MatchNext]_vars

\* ================================================================ claims
\* The usable session outcomes of the Termination Controller: Completed,
\* SignaledDone (apply returned the stop signal) and TimedOut.
UsableOutcome ==
    \/ result.tag = "OkOk"
    \/ result.tag = "OkErr" /\ stopSignal
    \/ result.tag = "Elapsed"

\* C1: a run whose session ended in a usable outcome with an empty ROA set
\* ends in a fatal error and produces no verdict (never NOT FOUND).
ZeroRoaFatal ==
    (pc = "done" /\ UsableOutcome /\ roas = <<>>)
        => (exit = "err" /\ verdict = "none")

\* C2: when the session deadline elapses, a non-empty ROA set is evaluated
\* and the run ends with the verdict computed from it.
SessionTimeoutUsable ==
    (pc = "done" /\ result.tag = "Elapsed" /\ roas # <<>>)
        => (exit = "ok" /\ verdict = VerdictOf(MatchingRoas(roas, prefix), asn))

\* C3: a run loop error that is not the accumulator's stop signal aborts the
\* run with that error, and no verdict is computed.
ForeignErrorFails ==
    (pc = "done" /\ result.tag = "OkErr" /\ ~stopSignal)
        => (exit = "err" /\ verdict = "none")

\* C4: once apply has returned the stop signal the run never fails: the
\* outcome is usable, and the ROA set evaluated is exactly the origins
\* announced before the empty batch.
StopSignalIntercepted ==
    stopSignal =>
        /\ exit # "err" /\ error = "none"
        /\ roas = announced /\ roas # <<>>
        /\ pc \in {"match", "evaluate", "verdict", "done"}
        /\ pc \in {"verdict", "done"} => matching_roas = MatchingRoas(announced, prefix)
        /\ pc = "done" => exit = "ok" /\ verdict # "none"

OneRoaThenEmptyBatch ==
    /\ stopSignal
    /\ pc = "done"
    /\ exit = "ok"
    /\ Len(roas) = 1
    /\ update_count = 2

\* C5: apply returns the stop error exactly when the batch is empty and the
\* ROA set was non-empty before the call, and then leaves the ROA set
\* unchanged; otherwise the client keeps reading.
ApplyCompletionHeuristic ==
    [][update_count' # update_count =>
        /\ stopSignal' <=> (lastBatch' = <<>> /\ Len(roas) > 0)
        /\ stopSignal' => (roas' = roas /\ pc' = "match"
                            /\ result' = OkErr(CorruptToIoError))
        /\ ~stopSignal' => (pc' = "session" /\ result' = Pending)]_vars

EmptyBatchBeforeAndAfterData ==
    /\ stopSignal
    /\ pc = "match"
    /\ last_update_size = 0
    /\ Len(roas) = 1
    /\ update_count = 3

\* C6: after apply of a non-empty batch the ROA set is the ROA set before
\* the call followed by the origins of the batch's Announce pairs in batch
\* order; Withdraw pairs and non-origin payloads change nothing.
AccumulationRule ==
    [][(update_count' # update_count /\ lastBatch' # <<>>) =>
        roas' = roas \o AnnouncedOrigins(lastBatch')]_vars

WithdrawOfAnnouncedOrigin ==
    /\ update_count = 2
    /\ Len(lastBatch) = 2
    /\ lastBatch[1].action = "Withdraw"
    /\ lastBatch[1].payload.kind = "Origin"
    /\ roas = <<lastBatch[1].payload.origin[1]>>
    /\ lastBatch[2] = [action |-> "Announce", payload |-> RouterKey]

\* C7: every step leaves the entries of the ROA set in place: the old ROA
\* set is a prefix of the new one.
MonotonicGrowth ==
    [][/\ Len(roas') >= Len(roas)
       /\ SubSeq(roas', 1, Len(roas)) = roas]_vars

GrewOverTwoUpdates ==
    /\ Len(roas) = 2
    /\ update_count = 3
    /\ \E i \in 1 .. Len(lastBatch) : lastBatch[i].action = "Withdraw"

\* C8: every run eventually ends, with a verdict or with a fatal error.
RunAlwaysEnds ==
    <>(pc = "done" /\ (exit = "err" \/ (exit = "ok" /\ verdict # "none")))

EndedBySessionDeadline ==
    /\ pc = "done"
    /\ result.tag = "Elapsed"
    /\ update_count = MaxUpdates
    /\ roas # <<>>

\* The ROA entries that have the query's family, network address and prefix
\* length.
SamePrefix(q, roa) ==
    /\ roa.prefix.addr.fam = q.fam
    /\ roa.prefix.addr.bits = Network(q.addr, q.len)
    /\ roa.prefix.len = q.len

\* C9: a ROA entry is counted as matching iff its network address and its
\* prefix length equal the query's.
ExactMatchOnly ==
    pc \in {"verdict", "done"} =>
        Len(matching_roas) =
            Cardinality({i \in 1 .. Len(roas) : SamePrefix(prefix, roas[i])})

\* C10: a ROA entry of the other address family never matches, whatever its
\* address value and length.
FamilySeparation ==
    pc \in {"verdict", "done"} =>
        /\ Len(matching_roas) <=
             Cardinality({i \in 1 .. Len(roas) : roas[i].prefix.addr.fam = prefix.fam})
        /\ (\A i \in 1 .. Len(roas) : roas[i].prefix.addr.fam # prefix.fam)
             => matching_roas = <<>>

CoincidingOtherFamily ==
    /\ pc = "done"
    /\ verdict = "NOT FOUND"
    /\ roas # <<>>
    /\ \A i \in 1 .. Len(roas) :
         /\ roas[i].prefix.addr.fam # prefix.fam
         /\ roas[i].prefix.addr.bits = prefix.addr
         /\ roas[i].prefix.len = prefix.len

\* The entries the Match Engine counts for a query: same family, address
\* equal to the query's address as written, same prefix length.
CountedAsMatch(q, roa) ==
    /\ roa.prefix.addr = [fam |-> q.fam, bits |-> q.addr]
    /\ roa.prefix.len = q.len

CountedEntries == SelectSeq(roas, LAMBDA r : CountedAsMatch(prefix, r))

\* C11: with a non-empty ROA set the verdict is NOT FOUND iff no entry
\* matches; with a match and an ASN it is VALID iff the ASN is the origin-AS
\* of a matching entry, else INVALID with the origin-AS of all matching
\* entries as authorized list; with a match and no ASN the matching set is
\* reported and neither VALID nor INVALID is issued.
VerdictDerivation ==
    (pc = "done" /\ exit = "ok" /\ roas # <<>>) =>
        LET M == CountedEntries
        IN /\ verdict = "NOT FOUND" <=> M = <<>>
           /\ (M # <<>> /\ asn # None) =>
                /\ verdict \in {"VALID", "INVALID"}
                /\ verdict = "VALID" <=> \E i \in 1 .. Len(M) : M[i].asn = asn[1]
                /\ verdict = "INVALID" =>
                     authorized = [i \in 1 .. Len(M) |-> M[i].asn]
           /\ (M # <<>> /\ asn = None) =>
                /\ verdict = "FOUND"
                /\ authorized = <<>>
                /\ Len(reported) = Len(M)
                /\ \A i \in 1 .. Len(M) : reported[i][1] = M[i].asn

TwoOriginsOtherAsn ==
    /\ pc = "done"
    /\ Len(roas) = 2
    /\ Len(CountedEntries) = 2
    /\ roas[1].asn = 1
    /\ roas[2].asn = 2
    /\ asn = Some(3)
    /\ verdict = "INVALID"
    /\ authorized = <<1, 2>>

\* C12: the max-length reported for a matching entry is its explicit
\* max-length, or its own prefix length when it has none.
MaxLenDefaulting ==
    pc \in {"verdict", "done"} =>
        LET M == CountedEntries
        IN /\ Len(matching_roas) = Len(M)
           /\ \A k \in 1 .. Len(M) :
                matching_roas[k][2] =
                    (IF M[k].prefix.max_len = None THEN M[k].prefix.len
                                                   ELSE M[k].prefix.max_len[1])

WithAndWithoutMaxLen ==
    /\ pc = "done"
    /\ Len(roas) = 2
    /\ Len(CountedEntries) = 2
    /\ prefix.len = 0
    /\ roas[1].prefix.max_len = None
    /\ roas[2].prefix.max_len = Some(1)
    /\ reported[1][2] = 0
    /\ reported[2][2] = 1

\* C13: a run with a verdict ends with success; a run ends with a failure
\* only on a prefix parse failure, a resolution failure, a connection
\* failure, a session error other than the stop signal, or zero ROAs.
ExitBehaviour ==
    pc = "done" =>
        /\ verdict # "none" => exit = "ok"
        /\ exit = "err" =>
             \/ error \in {"Failed to parse prefix",
                           "Failed to resolve server address",
                           "No addresses found for hostname",
                           "Failed to connect to RTR server",
                           "Connection timeout"}
             \/ result.tag = "OkErr" /\ ~stopSignal
             \/ result # Pending /\ roas = <<>>

\* C14: when the connect fails or the connect deadline expires the run has
\* ended with an error: no session was started, apply was never called and
\* no verdict is produced.
ConnectPhaseFatal ==
    error \in {"Failed to connect to RTR server", "Connection timeout"} =>
        /\ pc = "done"
        /\ exit = "err"
        /\ result = Pending
        /\ update = NoUpdate /\ lastReset = None
        /\ update_count = 0 /\ roas = <<>> /\ announced = <<>>
        /\ matching_roas = <<>> /\ verdict = "none"

ConnectDeadlineExpired ==
    /\ pc = "done"
    /\ error = "Connection timeout"
    /\ exit = "err"

\* C15: the collector is written only while the session is running, before
\* any stop signal and before the evaluation; the evaluation starts only
\* after the run loop has returned or was cancelled, and does not write.
WriteThenRead ==
    [][/\ collector' # collector =>
            /\ pc = "session" /\ result = Pending /\ ~stopSignal
            /\ matching_roas = <<>> /\ verdict = "none"
       /\ (pc' = "verdict" /\ pc # "verdict") =>
            /\ pc = "evaluate" /\ result # Pending
            /\ collector' = collector
       /\ result # Pending => collector' = collector]_vars

EvaluatedAfterStop ==
    /\ pc = "done"
    /\ exit = "ok"
    /\ stopSignal
    /\ Len(roas) = 2
    /\ matching_roas # <<>>

\* C16: wherever the client can call apply, apply gives the same result and
\* the same ROA set for any two timing records, and an apply with a
\* non-empty batch never returns the stop signal, whatever its timing record.
TimingIndependent ==
    /\ (pc = "session" /\ update # NoUpdate) =>
         \A b \in SeqsUpTo(UpdateItems, MaxBatch), t1 \in Timings, t2 \in Timings :
            /\ ApplyStops(roas, update \o b, t1) = ApplyStops(roas, update \o b, t2)
            /\ ApplyRoas(roas, update \o b, t1) = ApplyRoas(roas, update \o b, t2)
    /\ (lastTiming # None /\ lastBatch # <<>>) => ~stopSignal

EndOfDataAfterData ==
    /\ pc = "session"
    /\ lastTiming = Some([refresh |-> 1])
    /\ lastBatch # <<>>
    /\ update_count = 2
    /\ Len(roas) > Len(AnnouncedOrigins(lastBatch))
    /\ ~stopSignal

\* C18: whenever apply has returned the stop signal the ROA set is not
\* empty; an empty final ROA set comes from a run loop that returned
\* success or an error of its own, or from the deadline.
StopImpliesData ==
    /\ stopSignal => Len(roas) >= 1
    /\ (result # Pending /\ roas = <<>>) =>
         \/ result.tag \in {"OkOk", "Elapsed"}
         \/ result.tag = "OkErr" /\ ~stopSignal

StoppedWithTwoRoas ==
    /\ stopSignal
    /\ pc = "match"
    /\ Len(roas) = 2
    /\ update_count = 2

\* C19: start, with reset or without, hands out an empty batch context and
\* leaves roas, update_count and last_update_size as they are.
StartLeavesAccumulator ==
    [][(update = NoUpdate /\ update' # NoUpdate) =>
        /\ update' = <<>>
        /\ lastReset' \in {Some(TRUE), Some(FALSE)}
        /\ collector' = collector]_vars

ResetAfterReannouncement ==
    /\ pc = "session"
    /\ lastReset = Some(TRUE)
    /\ update = <<>>
    /\ update_count = 2
    /\ last_update_size = 1
    /\ Len(roas) = 2
    /\ roas[1] = roas[2]

\* C20: the match result has one entry per counted ROA entry, in arrival
\* order, and all of them are reported: an origin announced twice is
\* reported twice.
OneEntryPerMatch ==
    pc \in {"verdict", "done"} =>
        LET M == CountedEntries
        IN /\ Len(matching_roas) =
                Cardinality({i \in 1 .. Len(roas) : CountedAsMatch(prefix, roas[i])})
           /\ \A k \in 1 .. Len(matching_roas) : matching_roas[k][1] = M[k].asn
           /\ (pc = "done" /\ exit = "ok") => reported = matching_roas

SameOriginTwice ==
    /\ pc = "done"
    /\ Len(roas) = 2
    /\ roas[1] = roas[2]
    /\ CountedAsMatch(prefix, roas[1])
    /\ Len(reported) = 2

====
